---- MODULE Spec2Model ----
(***************************************************************************)
(* Model of minitorch/nn.py: tiled 2D pooling (tile, avgpool2d) and        *)
(* dropout.  Tensors are records of shape, strides and storage; element    *)
(* values are exact rationals (records n/d in lowest terms) standing for   *)
(* the floating-point values of the tensor library.                        *)
(***************************************************************************)
EXTENDS Integers, Sequences, FiniteSets, TLC

VARIABLES pc, call, result, draws

vars == <<pc, call, result, draws>>

---------------------------------------------------------------------------
(* Bounds of the explored inputs. *)
MaxBatch == 2
MaxDim == 4
MaxK == 2
MaxLen == 2
MaxDraws == 1

---------------------------------------------------------------------------
(* Rational arithmetic: the values held by tensors. *)
Abs(x) == IF x < 0 THEN -x ELSE x

RECURSIVE Gcd(_, _)
Gcd(a, b) == IF b = 0 THEN a ELSE Gcd(b, a % b)

R(n, d) ==
    LET g == Gcd(Abs(n), Abs(d))
        s == IF d < 0 THEN -1 ELSE 1
    IN  [n |-> (s * n) \div g, d |-> (s * d) \div g]

RAdd(x, y) == R(x.n * y.d + y.n * x.d, x.d * y.d)
RSub(x, y) == R(x.n * y.d - y.n * x.d, x.d * y.d)
RMul(x, y) == R(x.n * y.n, x.d * y.d)
RDiv(x, y) == R(x.n * y.d, x.d * y.n)
RGt(x, y) == x.n * y.d > y.n * x.d
RZero == R(0, 1)
ROne == R(1, 1)

---------------------------------------------------------------------------
(* The tensor library consumed by nn.py. *)
RECURSIVE Prod(_)
Prod(s) == IF s = <<>> THEN 1 ELSE Head(s) * Prod(Tail(s))

StridesFromShape(shape) ==
    [i \in 1..Len(shape) |-> Prod(SubSeq(shape, i + 1, Len(shape)))]

ToIndex(ordinal, shape) ==
    [i \in 1..Len(shape) |->
        (ordinal \div Prod(SubSeq(shape, i + 1, Len(shape)))) % shape[i]]

RECURSIVE IndexToPosition(_, _)
IndexToPosition(index, strides) ==
    IF index = <<>> THEN 0
    ELSE Head(index) * Head(strides) + IndexToPosition(Tail(index), Tail(strides))

At(t, index) == t.storage[1 + IndexToPosition(index, t.strides)]

MakeTensor(storage, shape) ==
    [shape |-> shape, strides |-> StridesFromShape(shape), storage |-> storage]

view(t, shape) == MakeTensor(t.storage, shape)

permute(t, order) ==
    [shape |-> [i \in 1..Len(order) |-> t.shape[order[i] + 1]],
     strides |-> [i \in 1..Len(order) |-> t.strides[order[i] + 1]],
     storage |-> t.storage]

contiguous(t) ==
    MakeTensor([k \in 1..Prod(t.shape) |-> At(t, ToIndex(k - 1, t.shape))],
               t.shape)

RECURSIVE SumAlong(_, _, _, _)
SumAlong(t, index, dim, r) ==
    IF r = 0 THEN RZero
    ELSE RAdd(SumAlong(t, index, dim, r - 1),
              At(t, [index EXCEPT ![dim + 1] = r - 1]))

sum(t, dim) ==
    LET out_shape == [t.shape EXCEPT ![dim + 1] = 1]
    IN  MakeTensor([k \in 1..Prod(out_shape) |->
                       SumAlong(t, ToIndex(k - 1, out_shape), dim, t.shape[dim + 1])],
                   out_shape)

truediv(t, c) ==
    MakeTensor([k \in 1..Prod(t.shape) |-> RDiv(At(t, ToIndex(k - 1, t.shape)), c)],
               t.shape)

mul(a, b) ==
    MakeTensor([k \in 1..Prod(a.shape) |->
                   RMul(At(a, ToIndex(k - 1, a.shape)), At(b, ToIndex(k - 1, a.shape)))],
               a.shape)

gt(t, c) ==
    MakeTensor([k \in 1..Prod(t.shape) |->
                   IF RGt(At(t, ToIndex(k - 1, t.shape)), c) THEN ROne ELSE RZero],
               t.shape)

zeros(shape) == MakeTensor([k \in 1..Prod(shape) |-> RZero], shape)

---------------------------------------------------------------------------
(* Outcomes of a call: a returned value or a raised exception, with the    *)
(* tensor-library calls the function made on the way.                      *)
Ok(v, ops) == [kind |-> "ok", value |-> v, ops |-> ops]
Raise(e, ops) == [kind |-> "raise", value |-> e, ops |-> ops]

---------------------------------------------------------------------------
(* nn.py *)

(* The functions nn.py defines; its header comment also lists argmax, Max, *)
(* max, softmax, logsoftmax and maxpool2d, none of which it defines.       *)
Defines == {"tile", "avgpool2d", "dropout"}

(* tile without the permute of line 45. *)
tile_unpermuted(input, kernel) ==
    LET kh == kernel[1]
        kw == kernel[2]
    IN  IF kh = 0 THEN Raise("ZeroDivisionError", <<>>)
        ELSE IF input.shape[3] % kh # 0 THEN Raise("AssertionError", <<>>)
        ELSE IF kw = 0 THEN Raise("ZeroDivisionError", <<>>)
        ELSE IF input.shape[4] % kw # 0 THEN Raise("AssertionError", <<>>)
        ELSE
            LET new_height == input.shape[3] \div kh
                new_width == input.shape[4] \div kw
                t1 == contiguous(view(input, <<input.shape[1], input.shape[2],
                                               new_height, kh, new_width, kw>>))
                t3 == view(t1, <<input.shape[1], input.shape[2],
                                 new_height, new_width, kh * kw>>)
            IN  Ok(<<t3, new_height, new_width>>, <<"view", "contiguous", "view">>)

(* tile without the assertions of lines 36-37: the spatial axes are cut    *)
(* down to whole windows.                                                  *)
tile_truncating(input, kernel) ==
    LET kh == kernel[1]
        kw == kernel[2]
    IN  IF kh = 0 \/ kw = 0 THEN Raise("ZeroDivisionError", <<>>)
        ELSE
            LET new_height == input.shape[3] \div kh
                new_width == input.shape[4] \div kw
                cut == MakeTensor(
                         [k \in 1..(input.shape[1] * input.shape[2]
                                      * new_height * kh * new_width * kw) |->
                            At(input, ToIndex(k - 1,
                                 <<input.shape[1], input.shape[2],
                                   new_height * kh, new_width * kw>>))],
                         <<input.shape[1], input.shape[2],
                           new_height, kh, new_width, kw>>)
                t2 == contiguous(permute(cut, <<0, 1, 2, 4, 3, 5>>))
                t3 == view(t2, <<input.shape[1], input.shape[2],
                                 new_height, new_width, kh * kw>>)
            IN  Ok(<<t3, new_height, new_width>>,
                   <<"view", "contiguous", "permute", "contiguous", "view">>)

tile(input, kernel) ==
    LET batch == input.shape[1]
        channel == input.shape[2]
        height == input.shape[3]
        width == input.shape[4]
        kh == kernel[1]
        kw == kernel[2]
    IN  IF kh = 0 THEN Raise("ZeroDivisionError", <<>>)
        ELSE IF height % kh # 0 THEN Raise("AssertionError", <<>>)
        ELSE IF kw = 0 THEN Raise("ZeroDivisionError", <<>>)
        ELSE IF width % kw # 0 THEN Raise("AssertionError", <<>>)
        ELSE
            LET new_height == height \div kh
                new_width == width \div kw
                t1 == contiguous(view(input,
                          <<batch, channel, new_height, kh, new_width, kw>>))
                t2 == contiguous(permute(t1, <<0, 1, 2, 4, 3, 5>>))
                t3 == view(t2, <<batch, channel, new_height, new_width, kh * kw>>)
            IN  Ok(<<t3, new_height, new_width>>,
                   <<"view", "contiguous", "permute", "contiguous", "view">>)

(* avgpool2d dividing by the kernel height instead of the window area. *)
avgpool2d_div_kh(input, kernel) ==
    LET tiled_r == tile(input, kernel)
    IN  IF tiled_r.kind = "raise" THEN tiled_r
        ELSE Ok(truediv(sum(tiled_r.value[1], 4), R(kernel[1], 1)),
                tiled_r.ops \o <<"sum", "truediv">>)

avgpool2d(input, kernel) ==
    LET tiled_r == tile(input, kernel)
    IN  IF tiled_r.kind = "raise" THEN tiled_r
        ELSE
            LET tiled == tiled_r.value[1]
                kh == kernel[1]
                kw == kernel[2]
                pool_area == kh * kw
            IN  Ok(truediv(sum(tiled, 4), R(pool_area, 1)),
                   tiled_r.ops \o <<"sum", "truediv">>)

(* input * mask / (1.0 - p) of line 90, on the noise drawn at line 88. *)
scaled(input, p, noise, mask) ==
    IF RSub(ROne, p) = RZero THEN Raise("ZeroDivisionError", <<"rand", "gt", "mul">>)
    ELSE Ok(truediv(mul(input, mask), RSub(ROne, p)),
            <<"rand", "gt", "mul", "truediv">>)

(* dropout testing p == 1.0 before the identity conditions. *)
dropout_p1_first(input, p, train, ignore, noise) ==
    IF p = ROne THEN Ok(zeros(input.shape), <<"zeros">>)
    ELSE IF ignore \/ ~train \/ p = RZero THEN Ok(input, <<>>)
    ELSE scaled(input, p, noise, gt(noise, p))

(* dropout without the p == 1.0 branch of lines 86-87. *)
dropout_no_zero_path(input, p, train, ignore, noise) ==
    IF ignore \/ ~train \/ p = RZero THEN Ok(input, <<>>)
    ELSE scaled(input, p, noise, gt(noise, p))

(* dropout keeping the units whose noise is >= p. *)
dropout_ge(input, p, train, ignore, noise) ==
    IF ignore \/ ~train \/ p = RZero THEN Ok(input, <<>>)
    ELSE IF p = ROne THEN Ok(zeros(input.shape), <<"zeros">>)
    ELSE scaled(input, p, noise,
                MakeTensor([k \in 1..Prod(noise.shape) |->
                               IF RGt(p, noise.storage[k]) THEN RZero ELSE ROne],
                           noise.shape))

(* dropout sampling the noise before its early returns. *)
dropout_rand_first(input, p, train, ignore, noise) ==
    IF ignore \/ ~train \/ p = RZero THEN Ok(input, <<"rand">>)
    ELSE IF p = ROne THEN Ok(zeros(input.shape), <<"rand", "zeros">>)
    ELSE scaled(input, p, noise, gt(noise, p))

(* noise is the tensor rand returns if the call reaches line 88. *)
dropout(input, p, train, ignore, noise) ==
    IF ignore \/ ~train \/ p = RZero THEN Ok(input, <<>>)
    ELSE IF p = ROne THEN Ok(zeros(input.shape), <<"zeros">>)
    ELSE scaled(input, p, noise, gt(noise, p))

---------------------------------------------------------------------------
(* Arguments the calls are made with. *)
Ramp(n, a, o) == [k \in 1..n |-> R(a * (k - 1) + o, 1)]

(* Slope and offset of the element values: all ones; 0, 1, 2, ...; and     *)
(* 2, 1, 0, -1, ...                                                        *)
Fills == {<<0, 1>>, <<1, 0>>, <<-1, 2>>}

Inputs ==
    { MakeTensor(Ramp(b * c * h * w, f[1], f[2]), <<b, c, h, w>>) :
        b \in 1..MaxBatch, c \in 1..MaxBatch, h \in 1..MaxDim, w \in 1..MaxDim,
        f \in Fills }

Kernels == (0..MaxK) \X (0..MaxK)

DropVals == {R(-1, 1), R(0, 1), R(2, 1)}

DropInputs ==
    UNION { { MakeTensor(s, <<n>>) : s \in [1..n -> DropVals] } : n \in 1..MaxLen }

PVals == {R(-1, 2), R(0, 1), R(1, 4), R(1, 2), R(1, 1), R(3, 2)}

(* rand: uniform values in [0, 1). *)
NoiseVals == {R(0, 1), R(1, 4), R(1, 2), R(3, 4)}

rand(shape) == { MakeTensor(s, shape) : s \in [1..Prod(shape) -> NoiseVals] }

RECURSIVE Count(_, _)
Count(x, s) ==
    IF s = <<>> THEN 0 ELSE (IF Head(s) = x THEN 1 ELSE 0) + Count(x, Tail(s))

NoNoise == <<>>

---------------------------------------------------------------------------
Init ==
    /\ pc = "idle"
    /\ call = [op |-> "none"]
    /\ result = [kind |-> "none"]
    /\ draws = 0

CallTile ==
    /\ pc = "idle"
    /\ \E input \in Inputs, kernel \in Kernels :
        LET res == tile(input, kernel)
        IN  /\ call' = [op |-> "tile", input |-> input, kernel |-> kernel]
            /\ result' = [kind |-> res.kind, value |-> res.value,
                          ops |-> res.ops, noise |-> NoNoise]
    /\ pc' = "done"
    /\ UNCHANGED draws

CallAvgpool2d ==
    /\ pc = "idle"
    /\ \E input \in Inputs, kernel \in Kernels :
        LET res == avgpool2d(input, kernel)
        IN  /\ call' = [op |-> "avgpool2d", input |-> input, kernel |-> kernel]
            /\ result' = [kind |-> res.kind, value |-> res.value,
                          ops |-> res.ops, noise |-> NoNoise]
    /\ pc' = "done"
    /\ UNCHANGED draws

CallMaxpool2d ==
    /\ pc = "idle"
    /\ "maxpool2d" \notin Defines
    /\ \E input \in Inputs, kernel \in Kernels :
        call' = [op |-> "maxpool2d", input |-> input, kernel |-> kernel]
    /\ result' = [kind |-> "raise", value |-> "AttributeError",
                  ops |-> <<>>, noise |-> NoNoise]
    /\ pc' = "done"
    /\ UNCHANGED draws

CallDropout ==
    /\ pc = "idle"
    /\ \E input \in DropInputs, p \in PVals, train \in BOOLEAN, ignore \in BOOLEAN :
        \E noise \in rand(input.shape) :
            LET res == dropout(input, p, train, ignore, noise)
                n == Count("rand", res.ops)
            IN  /\ call' = [op |-> "dropout", input |-> input, p |-> p,
                            train |-> train, ignore |-> ignore]
                /\ result' = [kind |-> res.kind, value |-> res.value, ops |-> res.ops,
                              noise |-> IF n > 0 THEN noise ELSE NoNoise]
                /\ draws + n <= MaxDraws
                /\ draws' = draws + n
    /\ pc' = "done"

Return ==
    /\ pc = "done"
    /\ pc' = "idle"
    /\ call' = [op |-> "none"]
    /\ result' = [kind |-> "none"]
    /\ UNCHANGED draws

Next ==
    \/ CallTile
    \/ CallAvgpool2d
    \/ CallMaxpool2d
    \/ CallDropout
    \/ Return

Spec == Init /\ [][Next]_vars

---------------------------------------------------------------------------
(* Vocabulary of the properties. *)
Returned(op) == pc = "done" /\ call.op = op

ValidKernel ==
    /\ call.kernel[1] > 0
    /\ call.kernel[2] > 0
    /\ call.input.shape[3] % call.kernel[1] = 0
    /\ call.input.shape[4] % call.kernel[2] = 0

PooledShape ==
    <<call.input.shape[1], call.input.shape[2],
      call.input.shape[3] \div call.kernel[1],
      call.input.shape[4] \div call.kernel[2]>>

(* The element of window (i, j) at offset k, read off the 4-D input. *)
WindowElem(b, c, i, j, k) ==
    At(call.input, <<b, c, i * call.kernel[1] + (k \div call.kernel[2]),
                           j * call.kernel[2] + (k % call.kernel[2])>>)

RECURSIVE WindowSum(_, _, _, _, _)
WindowSum(b, c, i, j, n) ==
    IF n = 0 THEN RZero
    ELSE RAdd(WindowSum(b, c, i, j, n - 1), WindowElem(b, c, i, j, n - 1))

(* The pooled element of window (b, c, i, j), by its row-major position. *)
PooledElem(t, b, c, i, j) ==
    t.storage[1 + ((b * PooledShape[2] + c) * PooledShape[3] + i) * PooledShape[4] + j]

Active == call.train /\ ~call.ignore /\ call.p # RZero /\ call.p # ROne

Elems(t) == 1..Prod(t.shape)

---------------------------------------------------------------------------
(* C1: for a valid kernel, tile returns (tiled, height/kh, width/kw) with  *)
(* tiled of shape (batch, channel, height/kh, width/kw, kh*kw) and         *)
(* tiled[b,c,i,j,k] = input[b, c, i*kh + k div kw, j*kw + k mod kw].       *)
C1_TileWindows ==
    (Returned("tile") /\ ValidKernel) =>
        /\ result.kind = "ok"
        /\ result.value[2] = PooledShape[3]
        /\ result.value[3] = PooledShape[4]
        /\ result.value[1].shape = PooledShape \o <<call.kernel[1] * call.kernel[2]>>
        /\ \A b \in 0..(PooledShape[1] - 1), c \in 0..(PooledShape[2] - 1),
              i \in 0..(PooledShape[3] - 1), j \in 0..(PooledShape[4] - 1),
              k \in 0..(call.kernel[1] * call.kernel[2] - 1) :
                At(result.value[1], <<b, c, i, j, k>>) = WindowElem(b, c, i, j, k)

C1_Witness ==
    /\ Returned("tile")
    /\ result.kind = "ok"
    /\ call.kernel = <<2, 2>>
    /\ call.input.shape = <<2, 2, 4, 4>>
    /\ call.input.storage[2] # call.input.storage[1]
    /\ At(result.value[1], <<1, 1, 1, 1, 3>>) = At(call.input, <<1, 1, 3, 3>>)

(* C2: for a valid kernel, avgpool2d returns a tensor of exactly the 4-D   *)
(* shape (batch, channel, height/kh, width/kw).                            *)
C2_AvgpoolShape4D ==
    (Returned("avgpool2d") /\ ValidKernel) =>
        /\ result.kind = "ok"
        /\ result.value.shape = PooledShape

(* C3: each element avgpool2d returns for window (b, c, i, j) is the sum   *)
(* of the window's kh*kw input elements divided by kh*kw; an all-ones      *)
(* input gives an all-ones output.                                         *)
C3_AvgpoolMean ==
    (Returned("avgpool2d") /\ ValidKernel) =>
        /\ result.kind = "ok"
        /\ Len(result.value.storage) = Prod(PooledShape)
        /\ \A b \in 0..(PooledShape[1] - 1), c \in 0..(PooledShape[2] - 1),
              i \in 0..(PooledShape[3] - 1), j \in 0..(PooledShape[4] - 1) :
                RMul(PooledElem(result.value, b, c, i, j),
                     R(call.kernel[1] * call.kernel[2], 1))
                    = WindowSum(b, c, i, j, call.kernel[1] * call.kernel[2])
        /\ (\A e \in Elems(call.input) : call.input.storage[e] = ROne)
              => \A e \in 1..Prod(PooledShape) : result.value.storage[e] = ROne

C3_Witness ==
    /\ Returned("avgpool2d")
    /\ result.kind = "ok"
    /\ call.kernel = <<2, 2>>
    /\ call.input.shape = <<1, 1, 4, 4>>
    /\ call.input.storage[1] = RZero
    /\ call.input.storage[2] = ROne
    /\ PooledElem(result.value, 0, 0, 0, 0) = R(5, 2)
    /\ PooledElem(result.value, 0, 0, 1, 1) = R(25, 2)

(* C4: the module provides maxpool2d: for a valid kernel it returns a      *)
(* tensor of shape (batch, channel, height/kh, width/kw) whose element     *)
(* (b, c, i, j) is the maximum of the elements of window (i, j).           *)
C4_MaxpoolProvided ==
    (Returned("maxpool2d") /\ ValidKernel) =>
        /\ result.kind = "ok"
        /\ result.value.shape = PooledShape
        /\ \A b \in 0..(PooledShape[1] - 1), c \in 0..(PooledShape[2] - 1),
              i \in 0..(PooledShape[3] - 1), j \in 0..(PooledShape[4] - 1) :
                LET m == PooledElem(result.value, b, c, i, j)
                    W == 0..(call.kernel[1] * call.kernel[2] - 1)
                IN  /\ \E k \in W : WindowElem(b, c, i, j, k) = m
                    /\ \A k \in W : ~RGt(WindowElem(b, c, i, j, k), m)

(* C5: dropout returns its input unchanged, with no masking and no         *)
(* scaling, whenever ignore is true, train is false or p = 0, also when    *)
(* p = 1.                                                                  *)
C5_DropoutIdentity ==
    (Returned("dropout") /\ (call.ignore \/ ~call.train \/ call.p = RZero)) =>
        /\ result.kind = "ok"
        /\ result.value = call.input
        /\ result.ops = <<>>

C5_Witness ==
    /\ Returned("dropout")
    /\ call.p = ROne
    /\ ~call.train
    /\ ~call.ignore
    /\ \E e \in Elems(call.input) : call.input.storage[e] # RZero
    /\ result.value = call.input

(* C6: dropout(x, 1.0, train=True, ignore=False) returns a tensor of x's   *)
(* shape whose every element is 0, without dividing by 1 - p.              *)
C6_DropoutAllDropped ==
    (Returned("dropout") /\ call.p = ROne /\ call.train /\ ~call.ignore) =>
        /\ result.kind = "ok"
        /\ result.value.shape = call.input.shape
        /\ Len(result.value.storage) = Prod(call.input.shape)
        /\ \A e \in Elems(call.input) : result.value.storage[e] = RZero
        /\ Count("truediv", result.ops) = 0

C6_Witness ==
    /\ Returned("dropout")
    /\ call.p = ROne
    /\ call.train
    /\ ~call.ignore
    /\ call.input.shape = <<2>>
    /\ call.input.storage[1] # RZero
    /\ result.kind = "ok"
    /\ result.value.storage = <<RZero, RZero>>

(* C7: in the active branch with 0 < p < 1, the output has the input's     *)
(* shape and at every element is input / (1 - p) where noise > p and 0     *)
(* where noise <= p.                                                       *)
C7_DropoutMask ==
    (Returned("dropout") /\ Active /\ call.p.n > 0 /\ call.p.n < call.p.d) =>
        /\ result.kind = "ok"
        /\ result.value.shape = call.input.shape
        /\ result.noise # NoNoise
        /\ result.noise.shape = call.input.shape
        /\ \A e \in Elems(call.input) :
            LET x == call.input.storage[e]
                y == result.value.storage[e]
                z == result.noise.storage[e]
            IN  IF z.n * call.p.d > call.p.n * z.d
                THEN y.n * (call.p.d - call.p.n) * x.d = x.n * call.p.d * y.d
                ELSE y.n = 0

C7_Witness ==
    /\ Returned("dropout")
    /\ Active
    /\ call.p = R(1, 2)
    /\ call.input.storage = <<R(2, 1), R(-1, 1)>>
    /\ result.noise.storage = <<R(1, 2), R(3, 4)>>
    /\ result.value.storage = <<RZero, R(-2, 1)>>

(* C8: when height is not divisible by kh or width not by kw, tile and     *)
(* avgpool2d fail with an assertion failure before producing any tensor.   *)
C8_IndivisibleAsserts ==
    ( /\ Returned("tile") \/ Returned("avgpool2d")
      /\ call.kernel[1] > 0
      /\ call.kernel[2] > 0
      /\ \/ call.input.shape[3] % call.kernel[1] # 0
         \/ call.input.shape[4] % call.kernel[2] # 0 ) =>
        /\ result.kind = "raise"
        /\ result.value = "AssertionError"
        /\ result.ops = <<>>

C8_Witness ==
    /\ Returned("avgpool2d")
    /\ call.kernel = <<1, 2>>
    /\ call.input.shape[4] = 3
    /\ result.kind = "raise"
    /\ result.value = "AssertionError"

(* C9: dropout with train true, ignore false and p < 0 or p > 1 fails      *)
(* with an error instead of returning a tensor.                            *)
C9_DropoutRejectsBadP ==
    ( /\ Returned("dropout")
      /\ call.train
      /\ ~call.ignore
      /\ call.p.n < 0 \/ call.p.n > call.p.d ) =>
        result.kind = "raise"

====
